---------------------------- MODULE Spec2Model ----------------------------
(***************************************************************************)
(* Model of mixing-analysis.py: the profile pipeline process_images        *)
(* (trimming, normalisation, resampling, median, optional smoothing), its  *)
(* helpers linear_interpolate and smooth, and the click/gradient loop of   *)
(* process_channel.                                                        *)
(*                                                                         *)
(* Floating-point numbers are modelled as exact extended rationals         *)
(* <<n, d>> in lowest terms with d >= 0; d = 0 encodes the IEEE specials   *)
(* numpy produces on a division by zero: <<0,0>> is nan, <<1,0>> is inf,   *)
(* <<-1,0>> is -inf.  Rounding error of binary floating point is not       *)
(* modelled.                                                               *)
(***************************************************************************)
EXTENDS Integers, Sequences, FiniteSets, TLC

\* ------------------------------------------------------------------ bounds
MaxLen == 3        \* longest raw profile read from a small file
MaxVal == 3        \* raw intensities are 0..MaxVal
MaxDeg == 2        \* largest smoothing degree tried
MaxData == 8       \* longest curve handed to smooth
MaxClicks == 4     \* clicks registered during one run of process_channel

\* ----------------------------------------------------- float arithmetic
Abs(n) == IF n < 0 THEN -n ELSE n
Sgn(n) == IF n > 0 THEN 1 ELSE IF n < 0 THEN -1 ELSE 0

RECURSIVE GCD(_, _)
GCD(a, b) == IF b = 0 THEN a ELSE GCD(b, a % b)

\* the float n/d, normalised
Flt(n, d) ==
    IF d = 0 THEN <<Sgn(n), 0>>
    ELSE LET g == GCD(Abs(n), Abs(d))
         IN  <<Sgn(d) * Sgn(n) * (Abs(n) \div g), Abs(d) \div g>>

Num(k) == <<k, 1>>
NaN == <<0, 0>>
IsNaN(a) == a = NaN
IsInf(a) == a[2] = 0 /\ a[1] # 0
IsFinite(a) == a[2] # 0

FNeg(a) == <<-a[1], a[2]>>

FAdd(a, b) ==
    IF IsNaN(a) \/ IsNaN(b) THEN NaN
    ELSE IF IsInf(a) /\ IsInf(b) THEN (IF a = b THEN a ELSE NaN)
    ELSE IF IsInf(a) THEN a
    ELSE IF IsInf(b) THEN b
    ELSE Flt(a[1] * b[2] + b[1] * a[2], a[2] * b[2])

FSub(a, b) == FAdd(a, FNeg(b))

FMul(a, b) ==
    IF IsNaN(a) \/ IsNaN(b) THEN NaN
    ELSE IF IsInf(a) \/ IsInf(b) THEN <<Sgn(a[1]) * Sgn(b[1]), 0>>
    ELSE Flt(a[1] * b[1], a[2] * b[2])

\* numpy float division: x/0 is nan or +-inf (a warning, no exception)
FDiv(a, b) ==
    IF IsNaN(a) \/ IsNaN(b) THEN NaN
    ELSE IF IsInf(b) THEN (IF IsInf(a) THEN NaN ELSE Num(0))
    ELSE IF IsInf(a) THEN <<a[1] * (IF b[1] < 0 THEN -1 ELSE 1), 0>>
    ELSE Flt(a[1] * b[2], a[2] * b[1])

\* comparisons; every comparison with nan is false
FLe(a, b) ==
    /\ ~IsNaN(a) /\ ~IsNaN(b)
    /\ IF IsInf(a) /\ IsInf(b) THEN a[1] <= b[1]
       ELSE a[1] * b[2] <= b[1] * a[2]
FLt(a, b) == FLe(a, b) /\ a # b

\* ------------------------------------------------- Python/numpy sequences
\* s[k] with a Python index k (0-based, negative counts from the end)
InRange(s, k) == -Len(s) <= k /\ k < Len(s)
At(s, k) == IF k < 0 THEN s[Len(s) + k + 1] ELSE s[k + 1]
\* s[a:b] for 0 <= a, b (clipped to the length)
Slice(s, a, b) ==
    LET hi == IF b < Len(s) THEN b ELSE Len(s)
    IN  IF a >= hi THEN <<>> ELSE [k \in 1..(hi - a) |-> s[a + k]]
Range(s) == {s[k] : k \in 1..Len(s)}
\* builtin min / max over a non-empty sequence of integers
MinOf(s) == CHOOSE m \in Range(s) : \A e \in Range(s) : m <= e
MaxOf(s) == CHOOSE m \in Range(s) : \A e \in Range(s) : m >= e

\* numpy.trim_zeros(s): strip the leading and the trailing zeros
TrimZeros(s) ==
    LET nz == {k \in 1..Len(s) : s[k] # 0}
    IN  IF nz = {} THEN <<>>
        ELSE LET lo == CHOOSE k \in nz : \A j \in nz : k <= j
                 hi == CHOOSE k \in nz : \A j \in nz : k >= j
             IN  [k \in 1..(hi - lo + 1) |-> s[lo + k - 1]]

\* position[value == m]: the positions of the samples whose value is m
Select(position, value, m) ==
    LET idx == {k \in 1..Len(value) : value[k] = m}
        RECURSIVE Pick(_)
        Pick(k) == IF k > Len(value) THEN <<>>
                   ELSE IF k \in idx THEN <<position[k]>> \o Pick(k + 1)
                   ELSE Pick(k + 1)
    IN  Pick(1)

\* ------------------------------------------------------ trimming (159-176)
\* len(position)/2 under Python 2 integer division
Half(n) == n \div 2

\* min(value[:len/2]) and min(value[len/2:]) need non-empty halves,
\* float(position[mask]) needs exactly one selected sample
EdgeError(position, value) ==
    IF Half(Len(position)) = 0 THEN "ValueError"
    ELSE LET lo == MinOf(Slice(value, 0, Half(Len(position))))
             hi == MinOf(Slice(value, Half(Len(position)), Len(value)))
         IN  IF Len(Select(position, value, lo)) # 1
                \/ Len(Select(position, value, hi)) # 1
             THEN "TypeError" ELSE "none"

\* mutant of Start: the darkest sample of the whole profile
StartWhole(position, value) ==
    Select(position, value, MinOf(value))[1]

Start(position, value) ==
    Select(position, value, MinOf(Slice(value, 0, Half(Len(position)))))[1]
Stop(position, value) ==
    Select(position, value, MinOf(Slice(value, Half(Len(position)), Len(value))))[1]

\* a[(position < start) | (position > stop)] = 0
ZeroOutside(a, position, start, stop) ==
    [k \in 1..Len(a) |->
        IF position[k] < start \/ position[k] > stop THEN 0 ELSE a[k]]

TrimValue(position, value) ==
    TrimZeros(ZeroOutside(value, position,
                          Start(position, value), Stop(position, value)))
TrimPosition(position, value) ==
    TrimZeros(ZeroOutside(position, position,
                          Start(position, value), Stop(position, value)))

\* (position - min(position)) / (max(position) - min(position))
Normalise(position) ==
    [k \in 1..Len(position) |->
        FDiv(Num(position[k] - MinOf(position)),
             Num(MaxOf(position) - MinOf(position)))]


\* mutant of Scan: "while x[index] < x_desired"
RECURSIVE ScanStrict(_, _, _)
ScanStrict(x, x_desired, index) ==
    IF index >= Len(x) THEN index
    ELSE IF FLt(At(x, index), x_desired) THEN ScanStrict(x, x_desired, index + 1)
    ELSE index

\* mutant of Interp: the weighted sum without the division
InterpNoDivide(x, y, x_desired, index) ==
    FAdd(FMul(Num(At(y, index - 1)), FSub(At(x, index), x_desired)),
         FMul(Num(At(y, index)), FSub(x_desired, At(x, index - 1))))

\* ------------------------------------------- linear_interpolate (200-224)
\* the scan "while x[index] <= x_desired: index = index + 1" from index;
\* the result Len(x) stands for the IndexError raised by reading x[Len(x)]
RECURSIVE Scan(_, _, _)
Scan(x, x_desired, index) ==
    IF index >= Len(x) THEN index
    ELSE IF FLe(At(x, index), x_desired) THEN Scan(x, x_desired, index + 1)
    ELSE index

\* (y[index-1]*(x_right - x_desired) + y[index]*(x_desired - x_left))
\*     / (x_right - x_left)
Interp(x, y, x_desired, index) ==
    LET x_left == At(x, index - 1)
        x_right == At(x, index)
    IN  FDiv(FAdd(FMul(Num(At(y, index - 1)), FSub(x_right, x_desired)),
                  FMul(Num(At(y, index)), FSub(x_desired, x_left))),
             FSub(x_right, x_left))

\* the call: the final index, whether an IndexError was raised, the value
linear_interpolate(x, y, x_desired) ==
    LET index == Scan(x, x_desired, 0)
    IN  IF index >= Len(x) \/ ~InRange(y, index - 1) \/ ~InRange(y, index)
        THEN [index |-> index, raised |-> TRUE, y_interp |-> NaN]
        ELSE [index |-> index, raised |-> FALSE,
              y_interp |-> Interp(x, y, x_desired, index)]

\* ------------------------------------------------------- smooth (227-248)
\* array(range(degree) + [degree] + range(degree)[::-1]) + 1
Triangle(degree) ==
    [k \in 1..(2 * degree + 1) |->
        IF k <= degree + 1 THEN k ELSE 2 * degree + 2 - k]

RECURSIVE SumSeq(_)
SumSeq(s) == IF s = <<>> THEN Num(0) ELSE FAdd(Head(s), SumSeq(Tail(s)))

\* sum(data[i:i+len(triangle)] * triangle) / sum(triangle), Python index i
Window(data, degree, i) ==
    LET triangle == Triangle(degree)
    IN  FDiv(SumSeq([k \in 1..Len(triangle) |->
                        FMul(At(data, i + k - 1), Num(triangle[k]))]),
             SumSeq([k \in 1..Len(triangle) |-> Num(triangle[k])]))

\* the list built by the loop "for i in range(degree, len(data) - degree*2)"
Windows(data, degree) ==
    LET n == Len(data) - 3 * degree
    IN  IF n <= 0 THEN <<>>
        ELSE [k \in 1..n |-> Window(data, degree, degree + k - 1)]

\* mutant of Pad: the tail is not padded
PadNoTail(smoothed, degree, n) ==
    [k \in 1..(degree + (degree \div 2)) |-> smoothed[1]] \o smoothed

\* [smoothed[0]]*(degree + degree/2) + smoothed, then padded to len(data)
Pad(smoothed, degree, n) ==
    LET lead == degree + (degree \div 2)
        body == [k \in 1..lead |-> smoothed[1]] \o smoothed
    IN  IF Len(body) >= n THEN body
        ELSE [k \in 1..n |->
                 IF k <= Len(body) THEN body[k] ELSE smoothed[Len(smoothed)]]

\* the call: smoothed[0] of an empty list raises IndexError
smooth(data, degree) ==
    LET smoothed == Windows(data, degree)
    IN  IF smoothed = <<>> THEN [raised |-> TRUE, smoothed |-> <<>>]
        ELSE [raised |-> FALSE,
              smoothed |-> Pad(smoothed, degree, Len(data))]

\* mutant of Median: the mean of the column
Mean(col) ==
    IF \E k \in 1..Len(col) : IsNaN(col[k]) THEN NaN
    ELSE LET RECURSIVE Sum(_)
             Sum(k) == IF k = 0 THEN Num(0) ELSE FAdd(col[k], Sum(k - 1))
         IN  FDiv(Sum(Len(col)), Num(Len(col)))

\* --------------------------------------------- median(ys, axis=0) (191-192)
\* numpy.median of one column: nan if any entry is nan, else the middle of
\* the sorted column (the mean of the two middle entries for an even count)
Median(col) ==
    IF \E k \in 1..Len(col) : IsNaN(col[k]) THEN NaN
    ELSE LET s == SortSeq(col, LAMBDA a, b : FLt(a, b))
             n == Len(s)
         IN  IF n % 2 = 1 THEN s[(n + 1) \div 2]
             ELSE FDiv(FAdd(s[n \div 2], s[n \div 2 + 1]), Num(2))


\* ------------------------------------------------------------------ inputs
\* the num_points=None default of process_images
None == -1

\* one file's columns as loaded into data[i]: [positions, values]; the
\* positions of an ImageJ profile are consecutive pixels from `origin`
Profile(origin, vals) ==
    <<[k \in 1..Len(vals) |-> origin + k - 1], vals>>

Origins == {0, 1}

Profiles ==
    {Profile(o, v) : o \in Origins,
                     v \in UNION {[1..L -> 0..MaxVal] : L \in 1..MaxLen}}

\* a distance group: n replicates of one cross-section p, replicate r of
\* which reads v instead of p's value at sample k
Disturbed(p, n, r, k, v) ==
    [j \in 1..n |-> IF j = r THEN <<p[1], [p[2] EXCEPT ![k] = v]>> ELSE p]

GroupSizes == {1, 2, 3}

\* the groups made of the cross-section p
Groups(p) ==
    {Disturbed(p, n, r, k, v) :
        n \in GroupSizes, r \in GroupSizes,
        k \in 1..Len(p[2]), v \in 0..MaxVal}

\* the ten-point replicate of the end-to-end scenario: 200 everywhere but
\* for a linear fall from 200 at position 2 to 20 at position 8
Ramp(origin) ==
    <<[k \in 1..10 |-> origin + k - 1],
      [k \in 1..10 |->
          LET pos == origin + k - 1
          IN  IF pos < 2 \/ pos > 8 THEN 200 ELSE 200 - 30 * (pos - 2)]>>

RampGroups == {<<Ramp(o), Ramp(o), Ramp(o)>> : o \in Origins}

\* ------------------------------------------------------------------- state
VARIABLES
    data,        \* process_images: the loaded columns, one pair per file
    num_points,  \* process_images: the argument, then the lattice size
    smoothing,   \* process_images: the argument
    i,           \* process_images: the replicate the current loop is at
    edges,       \* process_images: <<start, stop>> found for each replicate
    positions,   \* process_images: trimmed positions per replicate
    values,      \* process_images: trimmed values per replicate
    normcoords,  \* process_images: normalised positions per replicate
    len_section, \* process_images: trimmed lengths
    x,           \* process_images: the lattice
    ys,          \* process_images: resampled values per replicate
    average,     \* process_images: the returned curve
    pc,          \* where the modelled call is
    err,         \* the exception that ended it, or "none"
    call,        \* a direct call of a helper: its name and arguments
    ret,         \* what that call returned
    groups,      \* process_channel: the distance labels, in loop order
    fig,         \* process_channel: the group whose plot is shown, or 0
    xlist,       \* process_channel: event.xdata of every click so far
    ylist,       \* process_channel: event.ydata of every click so far
    clicked,     \* history: the plot each click was registered on
    results      \* process_channel: the rows written to results.txt

imgvars == <<data, num_points, smoothing, i, edges, positions, values,
             normcoords, len_section, x, ys, average>>
callvars == <<call, ret>>
chanvars == <<groups, fig, xlist, ylist, clicked, results>>
vars == <<imgvars, callvars, chanvars, pc, err>>

NoImages ==
    /\ data = <<>> /\ num_points = None /\ smoothing = FALSE /\ i = 0
    /\ edges = <<>> /\ positions = <<>> /\ values = <<>>
    /\ normcoords = <<>> /\ len_section = <<>>
    /\ x = <<>> /\ ys = <<>> /\ average = <<>>
NoCall == call = <<>> /\ ret = <<>>
NoChannel ==
    /\ groups = <<>> /\ fig = 0 /\ xlist = <<>> /\ ylist = <<>>
    /\ clicked = <<>> /\ results = <<>>

\* ---------------------------------------------- process_images (118-197)
NumPointsArgs == {None}

Init ==
    /\ \E p \in Profiles : data \in Groups(p) \cup RampGroups
    /\ num_points \in NumPointsArgs
    /\ smoothing \in BOOLEAN
    /\ i = 0
    /\ edges = <<>> /\ positions = <<>> /\ values = <<>>
    /\ normcoords = <<>> /\ len_section = <<>>
    /\ x = <<>> /\ ys = <<>> /\ average = <<>>
    /\ pc = "trim" /\ err = "none"
    /\ NoCall /\ NoChannel

Raise(e) ==
    /\ pc' = "raised" /\ err' = e

\* lines 159-176, one replicate
TrimReplicate ==
    /\ pc = "trim"
    /\ LET position == data[i + 1][1]
           value == data[i + 1][2]
       IN  IF EdgeError(position, value) # "none"
           THEN /\ Raise(EdgeError(position, value))
                /\ UNCHANGED <<i, edges, positions, values, normcoords,
                               len_section>>
           ELSE LET tpos == TrimPosition(position, value)
                    tval == TrimValue(position, value)
                IN  /\ edges' = Append(edges, <<Start(position, value),
                                                Stop(position, value)>>)
                    /\ len_section' = IF num_points = None
                                      THEN Append(len_section, Len(tpos))
                                      ELSE len_section
                    /\ IF tpos = <<>>
                       THEN /\ Raise("ValueError")
                            /\ UNCHANGED <<i, positions, values, normcoords>>
                       ELSE /\ positions' = Append(positions, tpos)
                            /\ values' = Append(values, tval)
                            /\ normcoords' = Append(normcoords, Normalise(tpos))
                            /\ i' = i + 1
                            /\ pc' = IF i + 1 = Len(data) THEN "lattice"
                                     ELSE "trim"
                            /\ err' = err
    /\ UNCHANGED <<data, num_points, smoothing, x, ys, average>>
    /\ UNCHANGED <<callvars, chanvars>>

\* lines 178-183
Lattice ==
    /\ pc = "lattice"
    /\ LET n == IF num_points = None THEN MaxOf(len_section) ELSE num_points
       IN  /\ num_points' = n
           /\ x' = [k \in 1..n |-> Flt(k - 1, n)]
    /\ i' = 0
    /\ pc' = "resample"
    /\ UNCHANGED <<data, smoothing, edges, positions, values, normcoords,
                   len_section, ys, average, err>>
    /\ UNCHANGED <<callvars, chanvars>>

\* lines 185-189, one replicate
Resample ==
    /\ pc = "resample"
    /\ LET r == [n \in 1..num_points |->
                    linear_interpolate(normcoords[i + 1], values[i + 1], x[n])]
       IN  IF \E n \in 1..num_points : r[n].raised
           THEN /\ Raise("IndexError")
                /\ UNCHANGED <<i, ys>>
           ELSE /\ ys' = Append(ys, [n \in 1..num_points |-> r[n].y_interp])
                /\ i' = i + 1
                /\ pc' = IF i + 1 = Len(data) THEN "median" ELSE "resample"
                /\ err' = err
    /\ UNCHANGED <<data, num_points, smoothing, edges, positions, values,
                   normcoords, len_section, x, average>>
    /\ UNCHANGED <<callvars, chanvars>>

\* lines 190-197
Aggregate ==
    /\ pc = "median"
    /\ LET med == [n \in 1..num_points |->
                      Median([j \in 1..Len(ys) |-> ys[j][n]])]
           sm == smooth(med, num_points \div 100)
       IN  IF smoothing /\ sm.raised
           THEN /\ Raise("IndexError")
                /\ UNCHANGED average
           ELSE /\ average' = IF smoothing THEN sm.smoothed ELSE med
                /\ pc' = "done"
                /\ err' = err
    /\ UNCHANGED <<data, num_points, smoothing, i, edges, positions, values,
                   normcoords, len_section, x, ys>>
    /\ UNCHANGED <<callvars, chanvars>>

Next == TrimReplicate \/ Lattice \/ Resample \/ Aggregate

Spec == Init /\ [][Next]_vars


\* ------------------------------------- direct calls of linear_interpolate
\* the non-decreasing sequences of length n over lo..hi
Ascending(n, lo, hi) ==
    {s \in [1..n -> lo..hi] : \A k \in 1..(n - 1) : s[k] <= s[k + 1]}

Intensities == {0, 1, 2}

\* x ascending over 0..MaxVal, y of the same length, x_desired on the
\* half-integer grid from below the smallest to above the largest position
InterpCalls(L) ==
    {[x |-> [k \in 1..L |-> Num(xs[k])], y |-> yv, x_desired |-> Flt(h, 2)] :
        xs \in Ascending(L, 0, MaxVal), yv \in [1..L -> Intensities],
        h \in -1..(2 * MaxVal + 1)}

InitInterp ==
    /\ \E L \in 1..MaxLen : call \in InterpCalls(L)
    /\ ret = <<>>
    /\ pc = "call" /\ err = "none"
    /\ NoImages /\ NoChannel

CallInterpolate ==
    /\ pc = "call"
    /\ LET r == linear_interpolate(call.x, call.y, call.x_desired)
       IN  /\ ret' = r
           /\ pc' = IF r.raised THEN "raised" ELSE "returned"
           /\ err' = IF r.raised THEN "IndexError" ELSE "none"
    /\ UNCHANGED <<call, imgvars, chanvars>>

NextInterp == CallInterpolate

SpecInterp == InitInterp /\ [][NextInterp]_vars

\* ------------------------------------------------- direct calls of smooth
SmoothCalls(L) ==
    {[data |-> [k \in 1..L |-> Num(d[k])], degree |-> g] :
        d \in [1..L -> {0, 1}], g \in 0..MaxDeg}

InitSmooth ==
    /\ \E L \in 0..MaxData : call \in SmoothCalls(L)
    /\ ret = <<>>
    /\ pc = "call" /\ err = "none"
    /\ NoImages /\ NoChannel

CallSmooth ==
    /\ pc = "call"
    /\ LET r == smooth(call.data, call.degree)
       IN  /\ ret' = r
           /\ pc' = IF r.raised THEN "raised" ELSE "returned"
           /\ err' = IF r.raised THEN "IndexError" ELSE "none"
    /\ UNCHANGED <<call, imgvars, chanvars>>

NextSmooth == CallSmooth

SpecSmooth == InitSmooth /\ [][NextSmooth]_vars


\* ---------------------------------------------- process_channel (286-342)
\* groups is built from a set of labels (line 297), so its order is any
\* order of any non-empty set of distances
Distances == {0, 5}
GroupLists ==
    {<<d>> : d \in Distances}
        \cup {p \in {<<d, e>> : d \in Distances, e \in Distances} :
                  p[1] # p[2]}

\* event.xdata, event.ydata of a click inside the axes
Coords == {0, 1}

InitChannel ==
    /\ groups \in GroupLists
    /\ fig = 0
    /\ xlist = <<>> /\ ylist = <<>> /\ clicked = <<>> /\ results = <<>>
    /\ i = 0
    /\ pc = "plots" /\ err = "none"
    /\ data = <<>> /\ num_points = None /\ smoothing = FALSE
    /\ edges = <<>> /\ positions = <<>> /\ values = <<>>
    /\ normcoords = <<>> /\ len_section = <<>>
    /\ x = <<>> /\ ys = <<>> /\ average = <<>>
    /\ NoCall

\* lines 321-335: the figure of groups[i] is drawn and show() blocks
ShowPlot ==
    /\ pc = "plots" /\ fig = 0
    /\ fig' = i + 1
    /\ UNCHANGED <<groups, xlist, ylist, clicked, results, pc, err,
                   imgvars, callvars>>

\* lines 330-332: onclick, run for every click while a figure is shown
OnClick ==
    /\ pc = "plots" /\ fig # 0
    /\ Len(xlist) < MaxClicks
    /\ \E xdata \in Coords, ydata \in Coords :
          /\ xlist' = Append(xlist, xdata)
          /\ ylist' = Append(ylist, ydata)
    /\ clicked' = Append(clicked, fig)
    /\ UNCHANGED <<groups, fig, results, pc, err, imgvars, callvars>>

\* the user closes the figure: show() returns and the loop goes on
ClosePlot ==
    /\ pc = "plots" /\ fig # 0
    /\ fig' = 0
    /\ i' = i + 1
    /\ pc' = IF i + 1 = Len(groups) THEN "gradient" ELSE "plots"
    /\ UNCHANGED <<groups, xlist, ylist, clicked, results, err, callvars,
                   data, num_points, smoothing, edges, positions, values,
                   normcoords, len_section, x, ys, average>>

\* the row appended for the Python index k of "range(0, len(xlist), 2)"
GradientRow(k) ==
    <<Num(groups[k \div 2 + 1]),
      FDiv(Num(At(ylist, k + 1) - At(ylist, k)),
           Num(At(xlist, k + 1) - At(xlist, k)))>>

\* groups[k/2], ylist[k+1] or xlist[k+1] is out of range
RowRaises(k) == k \div 2 >= Len(groups) \/ k + 1 >= Len(xlist)

\* lines 337-342
Gradients ==
    /\ pc = "gradient"
    /\ LET ks == {k \in 0..(Len(xlist) - 1) : k % 2 = 0}
       IN  IF \E k \in ks : RowRaises(k)
           THEN /\ Raise("IndexError")
                /\ UNCHANGED results
           ELSE /\ results' = [r \in 1..Cardinality(ks) |->
                                  GradientRow(2 * (r - 1))]
                /\ pc' = "done"
                /\ err' = err
    /\ UNCHANGED <<groups, fig, xlist, ylist, clicked, imgvars, callvars>>

NextChannel == ShowPlot \/ OnClick \/ ClosePlot \/ Gradients

SpecChannel == InitChannel /\ [][NextChannel]_vars


\* =================================================================== claims

\* the subsequence of a whose sample position lies in [start, stop]
Kept(a, position, start, stop) ==
    LET RECURSIVE Keep(_)
        Keep(k) == IF k > Len(a) THEN <<>>
                   ELSE IF start <= position[k] /\ position[k] <= stop
                        THEN <<a[k]>> \o Keep(k + 1)
                   ELSE Keep(k + 1)
    IN  Keep(1)

\* C1 (as claimed): after trimming, the kept positions and the kept values
\* of a replicate are exactly the samples whose position lies in
\* [start, stop], and neither kept array starts or ends with a zero.
C1_TrimKeepsSpan ==
    \A j \in 1..Len(positions) :
        LET position == data[j][1]
            value == data[j][2]
        IN  /\ positions[j] = Kept(position, position, edges[j][1], edges[j][2])
            /\ values[j] = Kept(value, position, edges[j][1], edges[j][2])
            /\ positions[j][1] # 0 /\ positions[j][Len(positions[j])] # 0
            /\ values[j][1] # 0 /\ values[j][Len(values[j])] # 0

\* C10 (as claimed): the trimmed position array and the trimmed value array
\* of a replicate have the same length, and element k of both comes from
\* the same sample of the raw profile.
C10_TrimKeepsPairs ==
    \A j \in 1..Len(positions) :
        /\ Len(positions[j]) = Len(values[j])
        /\ \E s \in 0..Len(data[j][1]) :
              \A k \in 1..Len(positions[j]) :
                  /\ s + k <= Len(data[j][1])
                  /\ positions[j][k] = data[j][1][s + k]
                  /\ values[j][k] = data[j][2][s + k]

\* C5 (as claimed): a trimmed profile whose largest position equals its
\* smallest makes the call fail: no normalised coordinates are stored for
\* it and no aggregated curve is returned.
C5_DegenerateRaises ==
    \A j \in 1..Len(positions) :
        MaxOf(positions[j]) = MinOf(positions[j])
            => /\ Len(normcoords) < j
               /\ pc # "done"


\* the group of the end-to-end scenario, positions counted from origin o
IsRamp(o) == data = <<Ramp(o), Ramp(o), Ramp(o)>>

NonIncreasing(curve) ==
    \A k \in 1..(Len(curve) - 1) : FLe(curve[k + 1], curve[k])

\* C7 (as claimed): on the scenario the channel edges are found at
\* positions 2 and 8, num_points defaults to the number of samples from 2
\* to 8, and the returned median curve is non-increasing.
C7_RampEdgesAsClaimed ==
    \A o \in Origins :
        IsRamp(o) =>
            /\ \A j \in 1..Len(edges) : edges[j] = <<2, 8>>
            /\ pc = "done" => num_points = 7 /\ NonIncreasing(average)

\* C7 (amended): on the scenario the edges are found at the darkest sample
\* of each half of the ten samples, position 4 + origin and position 8;
\* num_points defaults to the length of the longest trimmed replicate, the
\* 5 - origin samples from that start to position 8; the call returns, and
\* the returned median curve is non-increasing over the lattice.
C7_RampPipeline ==
    \A o \in Origins :
        IsRamp(o) =>
            /\ pc # "raised"
            /\ \A j \in 1..Len(edges) : edges[j] = <<4 + o, 8>>
            /\ \A j \in 1..Len(positions) :
                  positions[j] = [k \in 1..(5 - o) |-> 3 + o + k]
            /\ pc \in {"resample", "median", "done"} =>
                  /\ num_points = 5 - o
                  /\ \A j \in 1..3 : num_points >= Len(positions[j])
                  /\ \E j \in 1..3 : num_points = Len(positions[j])
            /\ pc = "done" =>
                  Len(average) = num_points /\ NonIncreasing(average)

C7_RampDone ==
    /\ \E o \in Origins : IsRamp(o)
    /\ pc = "done"
    /\ Len(edges) = 3
    /\ \E k \in 1..(Len(average) - 1) : FLt(average[k + 1], average[k])

\* replicate o alone departs from the other two, and only at lattice
\* point p
Spike(o, p) ==
    /\ Len(ys) = 3
    /\ \A a \in 1..3, b \in 1..3, n \in 1..num_points :
          (a # o /\ b # o) => ys[a][n] = ys[b][n]
    /\ \A a \in 1..3, n \in 1..num_points :
          n # p => ys[a][n] = ys[o][n]
    /\ \E a \in 1..3 : ys[a][p] # ys[o][p]

\* C8: when three replicates resample alike but for a spike of one of them
\* at one lattice point, the returned curve has the value of the other two
\* at that point and the common value elsewhere.
C8_MedianDropsSpike ==
    pc = "done" =>
        \A o \in 1..3, p \in 1..num_points :
            Spike(o, p) =>
                \A a \in 1..3, n \in 1..num_points :
                    a # o => average[n] = ys[a][n]

C8_SpikeAggregated ==
    /\ pc = "done"
    /\ \E o \in 1..3, p \in 1..num_points :
          /\ Spike(o, p)
          /\ num_points >= 2
          /\ \A a \in 1..3 : IsFinite(ys[a][p])


\* ------------------------------------------------ linear_interpolate claims
StrictlyAscending(xs) == \A k \in 1..(Len(xs) - 1) : FLt(xs[k], xs[k + 1])

Least(a, b) == IF a <= b THEN a ELSE b
Greatest(a, b) == IF a >= b THEN a ELSE b

C3_OutOfRangeRaises ==
    (/\ pc # "call"
     /\ Len(call.x) >= 2 /\ StrictlyAscending(call.x)
     /\ \/ FLt(call.x_desired, call.x[1])
        \/ FLe(call.x[Len(call.x)], call.x_desired))
        => pc = "raised"

Lead(degree) == degree + (degree \div 2)

\* the claimed shape of the result: as long as the input, its first
\* degree + degree/2 elements the first window average, its tail the last
Shaped(out, curve, degree) ==
    /\ Len(out) = Len(curve)
    /\ \A k \in 1..Lead(degree) : out[k] = Window(curve, degree, degree)
    /\ \A k \in (Lead(degree) + Len(curve) - 3 * degree + 1)..Len(curve) :
          out[k] = Window(curve, degree, Len(curve) - 2 * degree - 1)

\* C6 (as claimed): for every data and every degree >= 0 the call returns
\* a sequence of the length of data, clamped at the front and padded at
\* the tail.
C6_SmoothAnyInput ==
    pc # "call" =>
        /\ pc = "returned"
        /\ Shaped(ret.smoothed, call.data, call.degree)

\* C6 (amended): for every degree >= 0 and every data with
\* len(data) > 3*degree the call returns such a sequence; with
\* len(data) <= 3*degree no window is computed and it raises IndexError.
C6_SmoothLongEnough ==
    pc # "call" =>
        IF Len(call.data) > 3 * call.degree
        THEN /\ pc = "returned"
             /\ Shaped(ret.smoothed, call.data, call.degree)
        ELSE pc = "raised"

C6_SmoothedReturned ==
    /\ pc = "returned"
    /\ call.degree = 2
    /\ Len(call.data) > 3 * call.degree
    /\ Len(ret.smoothed) > Lead(call.degree) + Len(call.data) - 3 * call.degree
    /\ ret.smoothed[1] # ret.smoothed[Len(ret.smoothed)]

\* --------------------------------------------------- process_channel claim
ClicksOn(g) == {k \in 1..Len(clicked) : clicked[k] = g}

\* C4 (as claimed): results.txt has one row per distance group, the row of
\* a group holds the slope between the two clicks registered on its plot,
\* and no gradient is computed after a plot with another number of clicks
\* than two.
C4_GradientPerPlot ==
    pc = "done" =>
        /\ Len(results) = Len(groups)
        /\ \A g \in 1..Len(groups) :
              /\ Cardinality(ClicksOn(g)) = 2
              /\ \E a \in ClicksOn(g), b \in ClicksOn(g) :
                    /\ a < b
                    /\ results[g] =
                          <<Num(groups[g]),
                            FDiv(Num(ylist[b] - ylist[a]),
                                 Num(xlist[b] - xlist[a]))>>

=============================================================================
